---- MODULE Spec2Model ----
(***************************************************************************)
(* Model of src/src/data_processing/ghg_automation.py: the three pipeline  *)
(* stages load_raw_data, clean_data and convert_units, with the pandas     *)
(* operations they call modelled by what they do.                          *)
(*                                                                         *)
(* Representation.                                                         *)
(*  - A text is a sequence of one-character strings.                       *)
(*  - A cell value is a record whose only/first field names its type:      *)
(*      [nan |-> TRUE]           the missing marker (NaN / NaT / None)     *)
(*      [str |-> text]           a Python str                              *)
(*      [num |-> m, ops |-> s]   a number: m thousandths, to which the     *)
(*                               scalings named in s were applied in order *)
(*                               (the product is kept as a term: exact,    *)
(*                               no floating-point rounding is modelled)   *)
(*      [date |-> <<y, m, d>>]   a Timestamp                               *)
(*      [bool |-> b]             a bool                                    *)
(*  - A table (DataFrame) is [cols |-> set of column names,                *)
(*    rows |-> sequence of functions from cols to cell values]; the        *)
(*    position in rows is the RangeIndex label read_csv gives.             *)
(*  - DataFrames are objects: heap maps a reference to the table it holds. *)
(***************************************************************************)
EXTENDS Integers, Sequences, FiniteSets, TLC

\* ------------------------------------------------------------------------
\* Bounds of the model
\* ------------------------------------------------------------------------

\* Most data lines in an input file.
MaxRows == 2

\* ------------------------------------------------------------------------
\* Characters and the Python str methods used by clean_data/convert_units
\* ------------------------------------------------------------------------

LowerCase == << "a","b","c","d","e","f","g","h","i","j","k","l","m",
                "n","o","p","q","r","s","t","u","v","w","x","y","z" >>

UpperCase == << "A","B","C","D","E","F","G","H","I","J","K","L","M",
                "N","O","P","Q","R","S","T","U","V","W","X","Y","Z" >>

Digits == << "0","1","2","3","4","5","6","7","8","9" >>

IsLower(c) == \E i \in DOMAIN LowerCase : LowerCase[i] = c

IsUpper(c) == \E i \in DOMAIN UpperCase : UpperCase[i] = c

IsCased(c) == IsLower(c) \/ IsUpper(c)

IsDigit(c) == \E i \in DOMAIN Digits : Digits[i] = c

IsSpace(c) == c \in {" ", "\t"}

DigitVal(c) == (CHOOSE i \in DOMAIN Digits : Digits[i] = c) - 1

ToLower(c) ==
    IF IsUpper(c) THEN LowerCase[CHOOSE i \in DOMAIN UpperCase : UpperCase[i] = c]
    ELSE c

ToUpper(c) ==
    IF IsLower(c) THEN UpperCase[CHOOSE i \in DOMAIN LowerCase : LowerCase[i] = c]
    ELSE c

\* str.lower()
str_lower(s) == [i \in 1..Len(s) |-> ToLower(s[i])]

\* str.title(): a cased character is upper-cased when the character before it
\* is not cased, lower-cased otherwise; uncased characters are kept.
str_title(s) ==
    [i \in 1..Len(s) |->
        IF ~IsCased(s[i]) THEN s[i]
        ELSE IF i = 1 \/ ~IsCased(s[i-1]) THEN ToUpper(s[i])
        ELSE ToLower(s[i])]

RECURSIVE LStrip(_)
LStrip(s) == IF s # <<>> /\ IsSpace(Head(s)) THEN LStrip(Tail(s)) ELSE s

RECURSIVE RStrip(_)
RStrip(s) ==
    IF s # <<>> /\ IsSpace(s[Len(s)]) THEN RStrip(SubSeq(s, 1, Len(s)-1)) ELSE s

\* str.strip()
str_strip(s) == RStrip(LStrip(s))

\* str.contains(pat) for a pattern without regex metacharacters:
\* case-sensitive substring search.
str_contains(s, pat) ==
    \E i \in 0..(Len(s) - Len(pat)) : SubSeq(s, i+1, i+Len(pat)) = pat

\* str.replace(',', ''): every occurrence of the character is removed.
RECURSIVE str_remove(_, _)
str_remove(s, c) ==
    IF s = <<>> THEN <<>>
    ELSE IF Head(s) = c THEN str_remove(Tail(s), c)
    ELSE <<Head(s)>> \o str_remove(Tail(s), c)

\* ------------------------------------------------------------------------
\* Cell values
\* ------------------------------------------------------------------------

NaN == [nan |-> TRUE]

Str(s) == [str |-> s]

Num(m) == [num |-> m, ops |-> <<>>]

IsNull(v) == "nan" \in DOMAIN v

IsStr(v) == "str" \in DOMAIN v

IsNum(v) == "num" \in DOMAIN v

IsDate(v) == "date" \in DOMAIN v

\* amount * factor or amount / divisor on one cell; NaN stays NaN.
Scale(v, op) == IF IsNum(v) THEN [v EXCEPT !.ops = Append(@, op)] ELSE v

\* ------------------------------------------------------------------------
\* Parsers: pd.to_numeric, pd.to_datetime (errors='coerce')
\* ------------------------------------------------------------------------

RECURSIVE DigitsToInt(_)
DigitsToInt(s) ==
    IF s = <<>> THEN 0 ELSE DigitsToInt(SubSeq(s, 1, Len(s)-1)) * 10 + DigitVal(s[Len(s)])

AllDigits(s) == \A i \in DOMAIN s : IsDigit(s[i])

\* The fraction digits of a decimal text as thousandths (digits past the
\* third are dropped).
FracToMilli(f) ==
    LET d(i) == IF i <= Len(f) THEN DigitVal(f[i]) ELSE 0
    IN  d(1) * 100 + d(2) * 10 + d(3)

\* pd.to_numeric(text, errors='coerce') on one element: an unsigned decimal
\* text becomes a number, "nan" and anything else become NaN.
ParseNumeric(s) ==
    LET dots == {i \in DOMAIN s : s[i] = "."}
    IN  IF Cardinality(dots) = 0
        THEN IF s # <<>> /\ AllDigits(s) THEN Num(DigitsToInt(s) * 1000) ELSE NaN
        ELSE IF Cardinality(dots) = 1
        THEN LET k == CHOOSE i \in dots : TRUE
                 ip == SubSeq(s, 1, k-1)
                 fp == SubSeq(s, k+1, Len(s))
             IN  IF AllDigits(ip) /\ AllDigits(fp) /\ Len(ip) + Len(fp) > 0
                 THEN Num(DigitsToInt(ip) * 1000 + FracToMilli(fp))
                 ELSE NaN
        ELSE NaN

IsLeap(y) == (y % 4 = 0 /\ y % 100 # 0) \/ y % 400 = 0

DaysInMonth(y, m) ==
    IF m = 2 THEN (IF IsLeap(y) THEN 29 ELSE 28)
    ELSE IF m \in {4, 6, 9, 11} THEN 30 ELSE 31

\* pd.to_datetime(text, errors='coerce') on one element, for the texts of the
\* model: an ISO "YYYY-MM-DD" text naming a calendar day becomes that date,
\* anything else NaT.
ParseDate(s) ==
    IF Len(s) = 10 /\ s[5] = "-" /\ s[8] = "-"
       /\ AllDigits(SubSeq(s, 1, 4)) /\ AllDigits(SubSeq(s, 6, 7))
       /\ AllDigits(SubSeq(s, 9, 10))
    THEN LET y == DigitsToInt(SubSeq(s, 1, 4))
             m == DigitsToInt(SubSeq(s, 6, 7))
             d == DigitsToInt(SubSeq(s, 9, 10))
         IN  IF y >= 1 /\ m \in 1..12 /\ d \in 1..DaysInMonth(y, m)
             THEN [date |-> <<y, m, d>>]
             ELSE NaN
    ELSE NaN

\* ------------------------------------------------------------------------
\* Tables and pd.read_csv
\* ------------------------------------------------------------------------

RequiredCols == {"Source", "Date", "Amount", "Unit"}

EmptyTable == [cols |-> {}, rows |-> <<>>]

ColSet(header) == {header[i] : i \in DOMAIN header}

\* Cell texts read_csv turns into NaN (default na_values; those the model uses).
NaTexts == { <<>>, <<"N","/","A">> }

CellValue(t) == IF t \in NaTexts THEN NaN ELSE Str(t)

\* One data line as a row: a line with fewer fields than the header is padded
\* with NaN (both parser engines do this).
ParseLine(header, line) ==
    [c \in ColSet(header) |->
        LET k == CHOOSE i \in DOMAIN header : header[i] = c
        IN  IF k <= Len(line) THEN CellValue(line[k]) ELSE NaN]

\* A line the tokenizer rejects: more fields than the header has columns.
IsBadLine(header, line) == Len(line) > Len(header)

RECURSIVE SkipBadLines(_, _)
SkipBadLines(header, lines) ==
    IF lines = <<>> THEN <<>>
    ELSE IF IsBadLine(header, Head(lines)) THEN SkipBadLines(header, Tail(lines))
    ELSE <<Head(lines)>> \o SkipBadLines(header, Tail(lines))

TableOf(header, lines) ==
    [cols |-> ColSet(header),
     rows |-> [i \in 1..Len(lines) |-> ParseLine(header, lines[i])]]

\* (a strict parse that drops the lines it cannot take instead of raising)
ReadCsvStrictSkips(f) ==
    IF ~f.exists THEN [err |-> "FileNotFoundError", table |-> EmptyTable]
    ELSE IF f.header = <<>> THEN [err |-> "EmptyDataError", table |-> EmptyTable]
    ELSE [err |-> "none", table |-> TableOf(f.header, SkipBadLines(f.header, f.lines))]

\* pd.read_csv(filepath): the strict parse (C engine, on_bad_lines='error').
ReadCsvStrict(f) ==
    IF ~f.exists THEN [err |-> "FileNotFoundError", table |-> EmptyTable]
    ELSE IF f.header = <<>> THEN [err |-> "EmptyDataError", table |-> EmptyTable]
    ELSE IF \E i \in DOMAIN f.lines : IsBadLine(f.header, f.lines[i])
    THEN [err |-> "ParserError", table |-> EmptyTable]
    ELSE [err |-> "none", table |-> TableOf(f.header, f.lines)]

\* pd.read_csv(filepath, on_bad_lines='skip', engine='python'): the lenient parse.
ReadCsvLenient(f) ==
    IF ~f.exists THEN [err |-> "FileNotFoundError", table |-> EmptyTable]
    ELSE IF f.header = <<>> THEN [err |-> "EmptyDataError", table |-> EmptyTable]
    ELSE [err |-> "none", table |-> TableOf(f.header, SkipBadLines(f.header, f.lines))]

\* The dtype read_csv infers for a column is object (so that .str exists) when
\* the table has no rows or some cell of the column is a text that is not a
\* number; a column of numbers and/or NaN only is int64/float64.
IsObjectColumn(T, c) ==
    \/ Len(T.rows) = 0
    \/ \E i \in DOMAIN T.rows :
          IsStr(T.rows[i][c]) /\ IsNull(ParseNumeric(T.rows[i][c].str))

\* ------------------------------------------------------------------------
\* clean_data
\* ------------------------------------------------------------------------

\* pd.to_datetime(df['Date'], errors='coerce'), one element.
to_datetime(v) == IF IsStr(v) THEN ParseDate(v.str) ELSE NaN

\* df['Source'].str.strip().str.title(), one element (NaN stays NaN).
CleanSource(v) == IF IsStr(v) THEN Str(str_title(str_strip(v.str))) ELSE NaN

\* df['Amount'].astype(str), one element: NaN becomes the text "nan".
astype_str(v) == IF IsStr(v) THEN v.str ELSE <<"n","a","n">>

\* .astype(str).str.replace(',','') then pd.to_numeric(errors='coerce').
CleanAmount(v) == ParseNumeric(str_remove(astype_str(v), ","))

\* df['Unit'].str.lower().str.strip(), one element (NaN stays NaN).
CleanUnit(v) == IF IsStr(v) THEN Str(str_strip(str_lower(v.str))) ELSE NaN

\* One row of df.isnull().any(axis=1): a NaN in any column of the row.
RowHasNullAllOf(r) == \A c \in DOMAIN r : IsNull(r[c])

RowHasNull(r) == \E c \in DOMAIN r : IsNull(r[c])

\* The four column assignments on one row.
CleanFields(r) ==
    [r EXCEPT !["Date"]   = to_datetime(@),
              !["Source"] = CleanSource(@),
              !["Amount"] = CleanAmount(@),
              !["Unit"]   = CleanUnit(@)]

\* The row with the new column Has_Missing.
WithFlag(r) ==
    [c \in (DOMAIN r) \cup {"Has_Missing"} |->
        IF c = "Has_Missing" THEN [bool |-> RowHasNull(r)] ELSE r[c]]

KeepComplete(r) == ~r["Has_Missing"].bool

\* (a cleaner that drops the incomplete rows, as dropna() would)
CleanTableDropna(T) ==
    [cols |-> T.cols \cup {"Has_Missing"},
     rows |-> SelectSeq([i \in 1..Len(T.rows) |-> WithFlag(CleanFields(T.rows[i]))],
                        KeepComplete)]

\* The table clean_data builds when no statement raises.
CleanTable(T) ==
    [cols |-> T.cols \cup {"Has_Missing"},
     rows |-> [i \in 1..Len(T.rows) |-> WithFlag(CleanFields(T.rows[i]))]]

\* The exception clean_data ends with, "none" when it returns: the first
\* statement that raises, in source order (df[col] of an absent column is a
\* KeyError, .str of a column that is not of object dtype an AttributeError).
CleanError(T) ==
    IF "Date" \notin T.cols THEN "KeyError"
    ELSE IF "Source" \notin T.cols THEN "KeyError"
    ELSE IF ~IsObjectColumn(T, "Source") THEN "AttributeError"
    ELSE IF "Amount" \notin T.cols THEN "KeyError"
    ELSE IF "Unit" \notin T.cols THEN "KeyError"
    ELSE IF ~IsObjectColumn(T, "Unit") THEN "AttributeError"
    ELSE "none"

\* ------------------------------------------------------------------------
\* convert_units
\* ------------------------------------------------------------------------

tKm      == <<"k","m">>
tMiles   == <<"m","i","l","e","s">>
tKg      == <<"k","g">>
tTons    == <<"t","o","n","s">>
tLiters  == <<"l","i","t","e","r","s">>
tGallons == <<"g","a","l","l","o","n","s">>
tDollar  == <<"$">>
tUsd     == <<"u","s","d">>
tWaste   == <<"W","a","s","t","e">>

\* df.loc[mask, 'Amount'] = df.loc[mask, 'Amount'] <op>; df.loc[mask, 'Unit'] = label
MaskRewrite(T, mask, op, label) ==
    [T EXCEPT !.rows =
        [i \in 1..Len(T.rows) |->
            IF mask[i]
            THEN [T.rows[i] EXCEPT !["Amount"] = Scale(@, op), !["Unit"] = Str(label)]
            ELSE T.rows[i]]]

\* df['Unit'] == 'km'
KmMask(T) == [i \in 1..Len(T.rows) |-> T.rows[i]["Unit"] = Str(tKm)]

\* (df['Unit'] == 'kg') & df['Source'].str.contains('Waste', na=False)
KgWasteMask(T) ==
    [i \in 1..Len(T.rows) |->
        /\ T.rows[i]["Unit"] = Str(tKg)
        /\ IsStr(T.rows[i]["Source"])
        /\ str_contains(T.rows[i]["Source"].str, tWaste)]

\* df['Unit'] == 'liters'
LitersMask(T) == [i \in 1..Len(T.rows) |-> T.rows[i]["Unit"] = Str(tLiters)]

\* (the km rule writing the label of the liters rule)
KmRuleWrongLabel(T) == MaskRewrite(T, KmMask(T), "*0.621371", tLiters)

KmRule(T) == MaskRewrite(T, KmMask(T), "*0.621371", tMiles)

\* (the kg rule rescaling without relabelling)
KgWasteRuleNoRelabel(T) == MaskRewrite(T, KgWasteMask(T), "/1000", tKg)

KgWasteRule(T) == MaskRewrite(T, KgWasteMask(T), "/1000", tTons)

\* (the liters rule rewriting the whole selected row: the flag is reset)
LitersRuleWholeRow(T) ==
    LET R == MaskRewrite(T, LitersMask(T), "*0.264172", tGallons)
    IN  [R EXCEPT !.rows =
            [i \in 1..Len(R.rows) |->
                IF LitersMask(T)[i]
                THEN [R.rows[i] EXCEPT !["Has_Missing"] = [bool |-> FALSE]]
                ELSE R.rows[i]]]

LitersRule(T) == MaskRewrite(T, LitersMask(T), "*0.264172", tGallons)

\* df['Unit'] = df['Unit'].replace({'$': 'usd'})
CurrencyRule(T) ==
    [T EXCEPT !.rows =
        [i \in 1..Len(T.rows) |->
            IF T.rows[i]["Unit"] = Str(tDollar)
            THEN [T.rows[i] EXCEPT !["Unit"] = Str(tUsd)]
            ELSE T.rows[i]]]

\* The table convert_units builds: the four rewrites in source order, each on
\* the result of the one before.
ConvertTable(T) == CurrencyRule(LitersRule(KgWasteRule(KmRule(T))))

\* ------------------------------------------------------------------------
\* Input files
\* ------------------------------------------------------------------------

\* The data lines a file of the model is made of, each a sequence of field
\* texts: sources with stray spaces and mixed case, valid and invalid dates,
\* amounts with thousands separators and junk, every unit of the rule table,
\* empty fields, one line with a field too few and lines with a fifth field.
Lines ==
    { << <<" ","w","a","s","t","e"," ","d","i","s","p","o","s","a","l"," ">>, <<"2","0","2","4","-","0","1","-","0","5">>, <<"5",",","0","0","0">>, <<"k","g">> >>,
      << <<"e","w","a","s","t","e">>, <<"2","0","2","4","-","0","1","-","0","5">>, <<"1","0","0">>, <<"K","G">> >>,
      << <<"F","l","e","e","t">>, <<"2","0","2","4","-","0","1","-","0","5">>, <<"1","0","0">>, <<" ","K","M"," ">> >>,
      << <<"F","l","e","e","t">>, <<"2","0","2","4","-","1","3","-","4","5">>, <<"2",".","5">>, <<"L","i","t","e","r","s">> >>,
      << <<"F","l","e","e","t">>, <<"s","o","o","n">>, <<"1","x">>, <<"$">> >>,
      << <<"F","l","e","e","t">>, <<"2","0","2","4","-","0","2","-","2","9">>, <<"5",",","0","0","0">>, <<"k","g">> >>,
      << <<"4","2">>, <<"N","/","A">>, <<>>, <<>> >>,
      << <<>>, <<"2","0","2","4","-","0","1","-","0","5">>, <<"1","0","0">>, <<"m","i","l","e","s">> >>,
      << <<"F","l","e","e","t">>, <<"2","0","2","4","-","0","1","-","0","5">>, <<"1","0","0">> >>,
      << <<"F","l","e","e","t">>, <<"2","0","2","4","-","0","1","-","0","5">>, <<"1","0","0">>, <<"k","m">>, <<"o","k">> >>,
      << <<" ","w","a","s","t","e"," ","d","i","s","p","o","s","a","l"," ">>, <<"2","0","2","4","-","0","1","-","0","5">>, <<"1","0","0">>, <<"k","g">>, <<>> >>,
      << <<"E","-","W","A","S","T","E">>, <<"2","0","2","4","-","0","1","-","0","5">>, <<"1","0","0">>, <<"k","g">> >> }

Headers ==
    { << "Source", "Date", "Amount", "Unit" >>,
      << "Source", "Date", "Amount", "Unit", "Notes" >>,
      << "Source", "Date", "Amount" >> }

RECURSIVE SeqsUpTo(_, _)
SeqsUpTo(S, n) ==
    IF n = 0 THEN { <<>> }
    ELSE LET shorter == SeqsUpTo(S, n-1)
         IN  shorter \cup {Append(q, x) : q \in {p \in shorter : Len(p) = n-1}, x \in S}

\* The files load_raw_data is called on: a path that names no file, an empty
\* file, and files of a header and up to MaxRows data lines. The first data
\* line never has more fields than the header (read_csv would take its first
\* field for an index column, which the model does not cover).
Files ==
    { [exists |-> FALSE, header |-> <<>>, lines |-> <<>>],
      [exists |-> TRUE,  header |-> <<>>, lines |-> <<>>] }
    \cup
    { [exists |-> TRUE, header |-> h, lines |-> ls] :
        h \in Headers,
        ls \in SeqsUpTo(Lines, MaxRows) }

ValidFile(f) == f.lines = <<>> \/ Len(f.lines[1]) <= Len(f.header)

\* ------------------------------------------------------------------------
\* State
\* ------------------------------------------------------------------------

VARIABLES
    file,      \* the input file
    pc,        \* where the driver is: "load", "fallback" (inside the except
               \* block), "loaded", "cleaned", "converted", "converted2", "failed"
    heap,      \* reference -> the table the DataFrame object holds
    ref,       \* handle ("raw", "clean", "conv", "conv2") -> reference, 0: none
    err,       \* the exception the failed call ended with, "none" otherwise
    events,    \* what load_raw_data did, in order
    snap,      \* handle -> the table as its owner last saw it
    edited     \* whether the caller has changed a table

vars == << file, pc, heap, ref, err, events, snap, edited >>

Handles == {"raw", "clean", "conv", "conv2"}

Refs == 1..4

\* df.copy(): a new object; fresh is the next unused reference.
\* (no copy: the function works on the object it was given)
DfCopyAlias(fresh, r) == r

DfCopy(fresh, r) == fresh

Fresh == 1 + Cardinality({r \in Refs : heap[r] # EmptyTable \/ \E h \in Handles : ref[h] = r})

Init ==
    /\ file \in {f \in Files : ValidFile(f)}
    /\ pc = "load"
    /\ heap = [r \in Refs |-> EmptyTable]
    /\ ref = [h \in Handles |-> 0]
    /\ err = "none"
    /\ events = <<>>
    /\ snap = [h \in Handles |-> EmptyTable]
    /\ edited = FALSE

\* load_raw_data, the try block: df = pd.read_csv(filepath). On success the
\* function goes on to return df; a ParserError enters the except block; any
\* other exception leaves the function.
LoadStrict ==
    /\ pc = "load"
    /\ LET res == ReadCsvStrict(file)
       IN  IF res.err = "none"
           THEN /\ heap' = [heap EXCEPT ![Fresh] = res.table]
                /\ ref' = [ref EXCEPT !["raw"] = Fresh]
                /\ snap' = [snap EXCEPT !["raw"] = res.table]
                /\ events' = events \o <<"strict", "loaded">>
                /\ pc' = "loaded"
                /\ err' = err
           ELSE IF res.err = "ParserError"
           THEN /\ events' = events \o <<"strict", "ParserError">>
                /\ pc' = "fallback"
                /\ UNCHANGED << heap, ref, snap, err >>
           ELSE /\ events' = events \o <<"strict">>
                /\ pc' = "failed"
                /\ err' = res.err
                /\ UNCHANGED << heap, ref, snap >>
    /\ UNCHANGED << file, edited >>

\* load_raw_data, the except block and the return: the lenient parse, then
\* the warning is printed.
LoadLenient ==
    /\ pc = "fallback"
    /\ LET res == ReadCsvLenient(file)
       IN  IF res.err = "none"
           THEN /\ heap' = [heap EXCEPT ![Fresh] = res.table]
                /\ ref' = [ref EXCEPT !["raw"] = Fresh]
                /\ snap' = [snap EXCEPT !["raw"] = res.table]
                /\ events' = events \o <<"lenient", "warning", "loaded">>
                /\ pc' = "loaded"
                /\ err' = err
           ELSE /\ events' = events \o <<"lenient">>
                /\ pc' = "failed"
                /\ err' = res.err
                /\ UNCHANGED << heap, ref, snap >>
    /\ UNCHANGED << file, edited >>

\* clean_data(df_raw): works on df.copy() and returns it, or raises.
CleanData ==
    /\ pc = "loaded"
    /\ LET in  == heap[ref["raw"]]
           out == DfCopy(Fresh, ref["raw"])
       IN  IF CleanError(in) = "none"
           THEN /\ heap' = [heap EXCEPT ![out] = CleanTable(in)]
                /\ ref' = [ref EXCEPT !["clean"] = out]
                /\ snap' = [snap EXCEPT !["clean"] = CleanTable(in)]
                /\ pc' = "cleaned"
                /\ err' = err
           ELSE /\ pc' = "failed"
                /\ err' = CleanError(in)
                /\ UNCHANGED << heap, ref, snap >>
    /\ UNCHANGED << file, events, edited >>

\* convert_units(df_clean): works on df.copy() and returns it.
ConvertUnits ==
    /\ pc = "cleaned"
    /\ LET in  == heap[ref["clean"]]
           out == DfCopy(Fresh, ref["clean"])
       IN  /\ heap' = [heap EXCEPT ![out] = ConvertTable(in)]
           /\ ref' = [ref EXCEPT !["conv"] = out]
           /\ snap' = [snap EXCEPT !["conv"] = ConvertTable(in)]
    /\ pc' = "converted"
    /\ UNCHANGED << file, err, events, edited >>

\* convert_units applied to the table convert_units returned.
ConvertAgain ==
    /\ pc = "converted"
    /\ LET in  == heap[ref["conv"]]
           out == DfCopy(Fresh, ref["conv"])
       IN  /\ heap' = [heap EXCEPT ![out] = ConvertTable(in)]
           /\ ref' = [ref EXCEPT !["conv2"] = out]
           /\ snap' = [snap EXCEPT !["conv2"] = ConvertTable(in)]
    /\ pc' = "converted2"
    /\ UNCHANGED << file, err, events, edited >>

\* A new column with a value in every row.
AddColumn(T, name, v) ==
    [cols |-> T.cols \cup {name},
     rows |-> [i \in 1..Len(T.rows) |->
                 [c \in (DOMAIN T.rows[i]) \cup {name} |->
                     IF c = name THEN v ELSE T.rows[i][c]]]]

\* The caller changes, in place, one of the tables it holds (df['Tag'] = 'x').
CallerEdit(h) ==
    /\ pc \in {"cleaned", "converted", "converted2"}
    /\ ~edited
    /\ ref[h] # 0
    /\ heap' = [heap EXCEPT ![ref[h]] = AddColumn(@, "Tag", Str(<<"x">>))]
    /\ snap' = [snap EXCEPT ![h] = AddColumn(heap[ref[h]], "Tag", Str(<<"x">>))]
    /\ edited' = TRUE
    /\ UNCHANGED << file, pc, ref, err, events >>

Next ==
    \/ LoadStrict
    \/ LoadLenient
    \/ CleanData
    \/ ConvertUnits
    \/ ConvertAgain
    \/ \E h \in Handles : CallerEdit(h)

Spec == Init /\ [][Next]_vars

\* ------------------------------------------------------------------------
\* Properties
\* ------------------------------------------------------------------------

Raw   == heap[ref["raw"]]
Clean == heap[ref["clean"]]
Conv  == heap[ref["conv"]]
Conv2 == heap[ref["conv2"]]

Has(h) == ref[h] # 0

Occurs(e) == \E k \in DOMAIN events : events[k] = e

\* The conversion of one row on its own.
RowConverted(r) == ConvertTable([cols |-> DOMAIN r, rows |-> <<r>>]).rows[1]

C2_FlagIffFourFields ==
    Has("clean") =>
        \A i \in DOMAIN Clean.rows :
            Clean.rows[i]["Has_Missing"].bool
                <=> (\E c \in RequiredCols : IsNull(Clean.rows[i][c]))

\* C2 amended: Has_Missing is true iff some column of the cleaned row, one of
\* the four or any further column of the input, holds a missing marker.
C2_FlagIffAnyColumn ==
    Has("clean") =>
        \A i \in DOMAIN Clean.rows :
            Clean.rows[i]["Has_Missing"].bool
                <=> (\E c \in (DOMAIN Clean.rows[i]) \ {"Has_Missing"} :
                        IsNull(Clean.rows[i][c]))

\* A cleaned row whose four fields are all present and whose further column
\* is missing is flagged.
C2_Witness ==
    /\ Has("clean")
    /\ \E i \in DOMAIN Clean.rows :
          /\ "Notes" \in DOMAIN Clean.rows[i]
          /\ IsNull(Clean.rows[i]["Notes"])
          /\ \A c \in RequiredCols : ~IsNull(Clean.rows[i][c])
          /\ Clean.rows[i]["Has_Missing"].bool

\* "waste" occurs in the text in any letter case.
ContainsAnyCase(s, pat) == str_contains(str_lower(s), str_lower(pat))

\* C3 as stated: a cleaned row with unit "kg" whose source contains "waste" in
\* any letter case leaves convert_units with amount / 1000 and unit "tons";
\* one whose source does not contain it leaves with amount and unit unchanged.
C3_WasteKgRule ==
    Has("conv") =>
        \A i \in DOMAIN Conv.rows :
            Clean.rows[i]["Unit"] = Str(tKg) =>
                IF IsStr(Clean.rows[i]["Source"])
                   /\ ContainsAnyCase(Clean.rows[i]["Source"].str, tWaste)
                THEN /\ Conv.rows[i]["Unit"] = Str(tTons)
                     /\ Conv.rows[i]["Amount"] = Scale(Clean.rows[i]["Amount"], "/1000")
                ELSE /\ Conv.rows[i]["Unit"] = Str(tKg)
                     /\ Conv.rows[i]["Amount"] = Clean.rows[i]["Amount"]

\* C4: a second pass of convert_units changes no amount and no unit.
C4_SecondPassChangesNothing ==
    Has("conv2") =>
        /\ Len(Conv2.rows) = Len(Conv.rows)
        /\ \A i \in DOMAIN Conv2.rows :
              /\ Conv2.rows[i]["Amount"] = Conv.rows[i]["Amount"]
              /\ Conv2.rows[i]["Unit"] = Conv.rows[i]["Unit"]

\* The second pass has run on a table whose first pass rescaled a row to each
\* of two canonical labels.
C4_Witness ==
    /\ Has("conv2")
    /\ \E i, j \in DOMAIN Conv.rows :
          /\ Conv.rows[i]["Unit"] = Str(tTons)
          /\ Conv.rows[i]["Amount"] # Clean.rows[i]["Amount"]
          /\ Conv.rows[j]["Unit"] \in {Str(tMiles), Str(tGallons), Str(tUsd)}

LoadReturned == Has("raw")

LoadFailed == pc = "failed" /\ ~Has("raw")

\* The exceptions load_raw_data can end with stand for the claim's LoadError
\* (the source defines no class of that name).
LoadErrors == {"FileNotFoundError", "EmptyDataError"}

\* C5 as stated: load_raw_data returns a table with the four required columns
\* or fails with a LoadError; a missing file, an empty file and a file without
\* the required columns end in a LoadError and no table.
C5_LoadErrorContract ==
    /\ LoadReturned => RequiredCols \subseteq Raw.cols
    /\ LoadFailed => err \in LoadErrors
    /\ (pc \notin {"load", "fallback"}
          /\ (~file.exists \/ file.header = <<>>
                \/ ~(RequiredCols \subseteq ColSet(file.header))))
       => LoadFailed

\* The lenient parse only after a ParserError of the strict parse, and the
\* warning exactly when the lenient parse ran and returned.
FallbackOrder ==
    /\ \A k \in DOMAIN events :
          events[k] = "lenient" => (k > 1 /\ events[k-1] = "ParserError")
    /\ LoadReturned => (Occurs("warning") <=> Occurs("lenient"))

WrongCount(l) == Len(l) # Len(file.header)

TooMany(l) == Len(l) > Len(file.header)

C7_CleanNeverFails ==
    (Has("raw") /\ RequiredCols \subseteq Raw.cols /\ pc \notin {"loaded"}) =>
        /\ Has("clean")
        /\ \A i \in DOMAIN Clean.rows :
              /\ IsNum(Clean.rows[i]["Amount"]) \/ IsNull(Clean.rows[i]["Amount"])
              /\ IsDate(Clean.rows[i]["Date"]) \/ IsNull(Clean.rows[i]["Date"])

\* C8: neither stage changes the table it was given, and the table it returns
\* is another object: every table the caller holds is as the caller last saw
\* it, whatever happened to the others.
C8_InputsNotMutated ==
    /\ \A h \in Handles : Has(h) => heap[ref[h]] = snap[h]
    /\ \A h, g \in Handles : (Has(h) /\ Has(g) /\ h # g) => ref[h] # ref[g]

\* Both stages have returned, each changed something, and the caller has then
\* changed one of the tables.
C8_Witness ==
    /\ Has("conv")
    /\ edited
    /\ snap["raw"].rows # snap["clean"].rows
    /\ \E i \in DOMAIN snap["conv"].rows :
          snap["conv"].rows[i]["Unit"] # snap["clean"].rows[i]["Unit"]

\* The rule table read per row: the first rule whose condition the row meets.
FirstMatch(r) ==
    IF r["Unit"] = Str(tKm) THEN [r EXCEPT !["Amount"] = Scale(@, "*0.621371"), !["Unit"] = Str(tMiles)]
    ELSE IF r["Unit"] = Str(tKg) /\ IsStr(r["Source"]) /\ str_contains(r["Source"].str, tWaste)
    THEN [r EXCEPT !["Amount"] = Scale(@, "/1000"), !["Unit"] = Str(tTons)]
    ELSE IF r["Unit"] = Str(tLiters) THEN [r EXCEPT !["Amount"] = Scale(@, "*0.264172"), !["Unit"] = Str(tGallons)]
    ELSE IF r["Unit"] = Str(tDollar) THEN [r EXCEPT !["Unit"] = Str(tUsd)]
    ELSE r

ScalingsApplied(before, after) ==
    IF IsNum(after) THEN Len(after.ops) - Len(before.ops) ELSE 0

\* C9: one pass rewrites every row by at most one rule, with the result of a
\* per-row first-matching-rule evaluation: km -> * 0.621371, miles;
\* liters -> * 0.264172, gallons; $ -> same amount, usd; a unit other than km,
\* kg, liters, $ -> unchanged; no amount is scaled twice.
C9_OneRulePerRow ==
    Has("conv") =>
        \A i \in DOMAIN Conv.rows :
            LET in  == Clean.rows[i]
                out == Conv.rows[i]
            IN  /\ out["Amount"] = FirstMatch(in)["Amount"]
                /\ out["Unit"] = FirstMatch(in)["Unit"]
                /\ ScalingsApplied(in["Amount"], out["Amount"]) <= 1
                /\ in["Unit"] = Str(tKm) =>
                      /\ out["Amount"] = Scale(in["Amount"], "*0.621371")
                      /\ out["Unit"] = Str(tMiles)
                /\ in["Unit"] = Str(tLiters) =>
                      /\ out["Amount"] = Scale(in["Amount"], "*0.264172")
                      /\ out["Unit"] = Str(tGallons)
                /\ in["Unit"] = Str(tDollar) =>
                      /\ out["Amount"] = in["Amount"]
                      /\ out["Unit"] = Str(tUsd)
                /\ in["Unit"] \notin {Str(tKm), Str(tKg), Str(tLiters), Str(tDollar)} =>
                      /\ out["Amount"] = in["Amount"]
                      /\ out["Unit"] = in["Unit"]

\* One pass has converted a km row and a liters row of the same table.
C9_Witness ==
    /\ Has("conv")
    /\ \E i, j \in DOMAIN Conv.rows :
          /\ Clean.rows[i]["Unit"] = Str(tKm)
          /\ Conv.rows[i]["Unit"] = Str(tMiles)
          /\ IsNum(Conv.rows[i]["Amount"])
          /\ Clean.rows[j]["Unit"] = Str(tLiters)
          /\ Conv.rows[j]["Unit"] = Str(tGallons)

\* C10: convert_units leaves Source, Date and Has_Missing (and every column
\* other than Amount and Unit) of every row as clean_data returned them.
C10_OnlyAmountAndUnitChange ==
    Has("conv") =>
        \A i \in DOMAIN Conv.rows :
            \A c \in ((DOMAIN Conv.rows[i]) \cap (DOMAIN Clean.rows[i])) \ {"Amount", "Unit"} :
                Conv.rows[i][c] = Clean.rows[i][c]

\* convert_units has rescaled a row that clean_data flagged as incomplete.
C10_Witness ==
    /\ Has("conv")
    /\ \E i \in DOMAIN Conv.rows :
          /\ Clean.rows[i]["Has_Missing"].bool
          /\ Conv.rows[i]["Has_Missing"].bool
          /\ Conv.rows[i]["Amount"] # Clean.rows[i]["Amount"]
          /\ Conv.rows[i]["Unit"] = Str(tGallons)

====
